---- MODULE Spec2Model ----
(***************************************************************************)
(* Model of porespy.generators.pseudo_electrostatic_packing               *)
(* (src/porespy/generators/__electrostatic__.py).                          *)
(*                                                                         *)
(* The routine greedily inserts spheres of radius r into the active phase  *)
(* of a voxel image, each time at the eligible voxel closest to an         *)
(* attraction site.  Three fields co-evolve: the image `im`, the pool of   *)
(* eligible centres `sites` and the priority field `dt`.                   *)
(*                                                                         *)
(* Distances are kept squared, so that every comparison the code makes on  *)
(* exact Euclidean distances is made here on integers.                     *)
(***************************************************************************)
EXTENDS Integers, Sequences, FiniteSets

\* ---------------------------------------------------------------- bounds
\* The image is a W x H array (im.ndim = 2).
W == 5
H == 2
\* r is drawn from 0..MaxR, max_iter from 0..MaxIter.
MaxR == 2
MaxIter == 2

\* clearance and protrusion are drawn from these (valid and invalid values).
Clearances == {-1, 0, 1}
Protrusions == {-1, 0, 1}

\* ------------------------------------------------------------- geometry
Vox == (0 .. W - 1) \X (0 .. H - 1)

Sq(n) == n * n

Dist2(a, b) == Sq(a[1] - b[1]) + Sq(a[2] - b[2])

Min(S) == CHOOSE m \in S : \A n \in S : m <= n

\* What edt yields where no voxel of another label exists (larger than
\* every finite distance and than the value written at line 60).
Sentinel == 1000
Inf == Sq(Sentinel) + 1

\* edt(f): squared distance of every nonzero voxel to the nearest zero
\* voxel; zero voxels get 0.  The image border is not background.
edt(f) ==
    [x \in Vox |->
        IF f[x] = 0 THEN 0
        ELSE LET Z == {y \in Vox : f[y] = 0}
             IN  IF Z = {} THEN Inf ELSE Min({Dist2(x, y) : y \in Z})]

\* dist >= t for a squared distance d2 and an integer threshold t.
GeqDist(d2, t) == IF t <= 0 THEN TRUE ELSE d2 >= Sq(t)

\* ------------------------------------------------- ps.tools.insert_sphere
\* Ball rasterization: every voxel whose distance to c is <= rad, clipped
\* to the array bounds.
InBall(x, c, rad) == rad >= 0 /\ Dist2(x, c) <= Sq(rad)

\* Element type of the array after a value v has been written into it: a
\* boolean array is widened when v is not a boolean value.
ResultType(dtype, v) == IF dtype = "bool" /\ v \notin {0, 1} THEN "int" ELSE dtype

\* Conversion of v to the element type dtype.
Cast(dtype, v) == IF dtype = "bool" THEN (IF v = 0 THEN 0 ELSE 1) ELSE v

insert_sphere(f, dtype, c, rad, v) ==
    [x \in Vox |-> IF InBall(x, c, rad) THEN Cast(ResultType(dtype, v), v) ELSE f[x]]

\* ------------------------------------------------------------------ state
VARIABLES
    im_in,       \* the caller's image: Vox -> {0, 1} (boolean)
    r_in,        \* the caller's r
    clearance,
    protrusion,
    max_iter,
    im,          \* local im, the array that is returned
    im_dtype,    \* element type of im: "bool" or "int"
    r,           \* local r, rebound at line 50
    sites_arg,   \* sites up to line 47: [given |-> BOOLEAN, mask |-> SUBSET Vox],
                 \* the caller's argument, None being replaced at line 46
    sites,       \* the candidate pool (sites from line 48 on): Vox -> {0, 1}
    dt,          \* the priority field: Vox -> squared distance
    it,          \* iterations of the for loop started so far
    count,       \* spheres inserted so far (calls of line 58)
    centers,     \* the set of centres cen chosen so far
    cen,         \* the centre chosen last (line 57); <<>> before the first
    pc           \* "start" (line 42), "loop" (line 51), "done" (returned)

vars == <<im_in, r_in, clearance, protrusion, max_iter, im, im_dtype,
          r, sites_arg, sites, dt, it, count, centers, cen, pc>>

inputs == <<im_in, r_in, clearance, protrusion, max_iter>>

\* ----------------------------------------------------------------- inputs
\* Images: the first k columns are the other phase, the rest is active.
Images == {[x \in Vox |-> IF x[1] < k THEN 0 ELSE 1] : k \in 0 .. W}

\* Site masks: empty or a single voxel of the first row.
Masks == {{}} \cup {{<<i, 0>>} : i \in 0 .. W - 1}

SitesArgs == {[given |-> FALSE, mask |-> {}]} \cup {[given |-> TRUE, mask |-> m] : m \in Masks}

Zeros == [x \in Vox |-> 0]

Init ==
    /\ im_in \in Images
    /\ r_in \in 0 .. MaxR
    /\ clearance \in Clearances
    /\ protrusion \in Protrusions
    /\ max_iter \in 0 .. MaxIter
    /\ im = im_in
    /\ im_dtype = "bool"
    /\ r = r_in
    /\ sites_arg \in SitesArgs
    /\ sites = Zeros
    /\ dt = Zeros
    /\ it = 0
    /\ count = 0
    /\ centers = {}
    /\ cen = <<>>
    /\ pc = "start"

\* ------------------------------------------------------------ lines 42-50
AsField(S) == [x \in Vox |-> IF x \in S THEN 1 ELSE 0]

\* Line 48: (sites == 0)*(dt_im >= (r-protrusion)).
ThicknessOK(dt_im, x, rad, p) == GeqDist(dt_im[x], rad - p)

\* The threshold taken after line 50 has rebound r.
MutCandidatePoolEffectiveR(img, attr, rad, p) ==
    LET dt_im == edt(img)
    IN  [x \in Vox |->
            IF x \notin attr /\ ThicknessOK(dt_im, x, rad + clearance, p) THEN 1 ELSE 0]

CandidatePool(img, attr, rad, p) ==
    LET dt_im == edt(img)
    IN  [x \in Vox |-> IF x \notin attr /\ ThicknessOK(dt_im, x, rad, p) THEN 1 ELSE 0]

\* Line 50: r = r + clearance.
EffectiveR(rad, c) == rad + c

Prepare(attr) ==
    /\ sites_arg' = [given |-> TRUE, mask |-> attr]
    /\ dt' = edt(AsField(Vox \ attr))
    /\ sites' = CandidatePool(im, attr, r, protrusion)
    /\ r' = EffectiveR(r, clearance)
    /\ pc' = "loop"
    /\ UNCHANGED <<inputs, im, im_dtype, it, count, centers, cen>>

\* sites is given: lines 42, 47-50.
SetupExplicit ==
    /\ pc = "start"
    /\ sites_arg.given
    /\ Prepare(sites_arg.mask)

\* sites is None: lines 42-50.  The peaks of the smoothed distance transform
\* are some voxels of the active phase (line 46 multiplies by im).
SetupDerived ==
    /\ pc = "start"
    /\ ~sites_arg.given
    /\ \E m \in Masks :
        /\ \A x \in m : im[x] # 0
        /\ Prepare(m)

\* ------------------------------------------------------------ lines 51-61
\* Line 52: options = np.where(sites).
Options == {x \in Vox : sites[x] # 0}

\* The last entry of the argsort taken.
MutIsChoiceLast(x) == x \in Options /\ \A y \in Options : dt[y] <= dt[x]

\* Line 54: the first entry of argsort(dt[options]) is an option of least dt
\* (which one among equals depends on the sort).
IsChoice(x) == x \in Options /\ dt[x] = Min({dt[y] : y \in Options})

\* One iteration too many.
MutLoopRuns == it <= max_iter

\* Line 51: for _ in range(max_iter).
LoopRuns == it < max_iter

\* The marker truncated to a boolean.
MutMarker == Cast("bool", -1)

\* Line 58: v = -1.
Marker == -1

\* The sphere drawn with the clearance-adjusted radius.
MutInsertRadius == r

\* Line 58: r = r - clearance.
InsertRadius == r - clearance

\* The exclusion ball as large as the sphere only.
MutExclusionRadius == r

\* Line 59: r = 2*r.
ExclusionRadius == 2 * r

\* The pool rebuilt from the latest ball alone.
MutExclude(pool, c) ==
    [x \in Vox |-> IF InBall(x, c, ExclusionRadius) THEN 0 ELSE 1]

\* Line 59: sites = insert_sphere(sites, c=cen, r=2*r, v=0).
Exclude(pool, c) == insert_sphere(pool, "int", c, ExclusionRadius, 0)

\* The IndexError left uncaught.
MutOnIndexError == "raised"

\* Lines 55-56: except IndexError: break.
OnIndexError == "done"

\* Line 60: r = r.
DeprioRadius == r

Iterate ==
    /\ pc = "loop"
    /\ LoopRuns
    /\ \E c \in {x \in Vox : IsChoice(x)} :
        /\ cen' = c
        /\ im' = insert_sphere(im, im_dtype, c, InsertRadius, Marker)
        /\ im_dtype' = ResultType(im_dtype, Marker)
        /\ sites' = Exclude(sites, c)
        /\ dt' = insert_sphere(dt, "int", c, DeprioRadius, Sq(Sentinel))
        /\ centers' = centers \cup {c}
    /\ it' = it + 1
    /\ count' = count + 1
    /\ UNCHANGED <<inputs, r, sites_arg, pc>>

\* Lines 53-56: options is empty, IndexError, break; line 62.
Exhausted ==
    /\ pc = "loop"
    /\ LoopRuns
    /\ Options = {}
    /\ it' = it + 1
    /\ pc' = OnIndexError
    /\ UNCHANGED <<inputs, im, im_dtype, r, sites_arg, sites, dt, count, centers, cen>>

\* Line 51: the range is used up; line 62.
Finish ==
    /\ pc = "loop"
    /\ ~LoopRuns
    /\ pc' = "done"
    /\ UNCHANGED <<inputs, im, im_dtype, r, sites_arg, sites, dt, it, count, centers, cen>>

Next == SetupExplicit \/ SetupDerived \/ Iterate \/ Exhausted \/ Finish

Spec == Init /\ [][Next]_vars

\* The interpreter runs the function to its return.
FairSpec == Spec /\ WF_vars(Next)

\* ------------------------------------------------------------ properties
\* The attraction mask (sites at line 47).
attraction == sites_arg.mask

Abs(n) == IF n < 0 THEN -n ELSE n

\* The pool as line 48 builds it from the caller's arguments.
InitialPool == {x \in Vox : CandidatePool(im_in, attraction, r_in, protrusion)[x] # 0}

\* Voxels within the nominal radius of an accepted centre.
Covered == {x \in Vox : \E c \in centers : InBall(x, c, r_in)}

\* C1: with clearance >= 0 and r > 0, no voxel is chosen twice and any two
\* distinct accepted centres are at distance >= 2 * (r + clearance).
C1_NonOverlap ==
    (clearance >= 0 /\ r_in > 0) =>
        /\ Cardinality(centers) = count
        /\ \A c1, c2 \in centers :
            c1 # c2 => Dist2(c1, c2) >= Sq(2 * (r_in + clearance))

C1_Witness == clearance > 0 /\ r_in > 0 /\ Cardinality(centers) >= 2

\* C2: with clearance = 0 no voxel lies in the radius-r ball of two accepted
\* spheres.
C2_DisjointSpheres ==
    clearance = 0 =>
        /\ Cardinality(centers) = count
        /\ \A x \in Vox : Cardinality({c \in centers : InBall(x, c, r_in)}) <= 1

C2_Witness == clearance = 0 /\ r_in >= 1 /\ Cardinality(centers) >= 2

\* C3: every accepted centre has local thickness >= r - protrusion, the
\* thickness being that of the caller's image and r the caller's radius.
C3_Thickness ==
    \A c \in centers : ThicknessOK(edt(im_in), c, r_in, protrusion)

C3_Witness ==
    /\ centers # {}
    /\ clearance # 0
    /\ \E x \in Vox \ attraction : ~ThicknessOK(edt(im_in), x, r_in, protrusion)

InvalidParams == r_in <= 0 \/ Abs(clearance) >= r_in \/ protrusion < 0

C5_RejectInvalid == InvalidParams => (it = 0 /\ pc # "done")

\* C6: with |clearance| < r the number of accepted spheres is at most
\* max_iter and at most the size of the initial pool, and no voxel is chosen
\* twice.
C6_BoundedCount ==
    (Abs(clearance) < r_in /\ pc # "start") =>
        /\ count <= max_iter
        /\ count <= Cardinality(InitialPool)
        /\ Cardinality(centers) = count

C6_Witness ==
    /\ Abs(clearance) < r_in
    /\ pc = "done"
    /\ count = max_iter
    /\ count >= 2
    /\ Options # {}

\* C7: the call reaches its return, and it returns only with max_iter
\* spheres accepted or with the pool empty.
C7_Terminates ==
    /\ <>(pc = "done")
    /\ [](pc \in {"start", "loop", "done"})
    /\ [](pc = "done" => (count = max_iter \/ Options = {}))

C7_Witness == pc = "done" /\ Options = {} /\ count >= 1 /\ count < max_iter

\* C8: the returned image has the caller's shape, holds the marker exactly on
\* the balls of the nominal radius r about the accepted centres, and the
\* caller's value everywhere else.
C8_Frame ==
    pc = "done" =>
        /\ DOMAIN im = DOMAIN im_in
        /\ \A x \in Vox : im[x] = IF x \in Covered THEN Marker ELSE im_in[x]

C8_Witness ==
    /\ pc = "done"
    /\ Cardinality(centers) >= 2
    /\ clearance # 0
    /\ \E x \in Vox : im[x] = 0
    /\ \E x \in Vox : im[x] = 1

\* C9: an iteration never adds a voxel to the pool, and the pool stays inside
\* the initial pool and outside the attraction mask.
C9_PoolShrinks ==
    /\ [][pc = "loop" => \A x \in Vox : sites'[x] # 0 => sites[x] # 0]_vars
    /\ [](pc # "start" => Options \subseteq InitialPool \ attraction)

C9_Witness ==
    /\ pc = "loop"
    /\ count >= 2
    /\ Options # {}
    /\ attraction # {}
    /\ Options # InitialPool

\* C10: with max_iter = 0 no iteration runs and the returned image is the
\* caller's image.
C10_NoOp ==
    max_iter = 0 => (it = 0 /\ count = 0 /\ im = im_in /\ im_dtype = "bool")

C10_Witness == max_iter = 0 /\ pc = "done" /\ Options # {}

\* Squared distance of x to the nearest attraction point.
SiteDist2(x) == Min({Dist2(x, s) : s \in attraction})

\* Non-site voxels whose thickness in the caller's image is >= rad - protrusion.
ThickEnough(rad) ==
    {x \in Vox \ attraction : GeqDist(edt(im_in)[x], rad - protrusion)}

\* C11: the centre an iteration chooses is in the pool as it is then and no
\* voxel of that pool has a smaller priority value; and, given attraction
\* points, the first accepted centre is at least distance to them among the
\* thickness-eligible non-site voxels.
C11_SelectMin ==
    /\ [][count' = count + 1 =>
            /\ sites[cen'] # 0
            /\ \A y \in Vox : sites[y] # 0 => dt[cen'] <= dt[y]]_vars
    /\ []((count = 1 /\ attraction # {}) =>
            /\ cen \in ThickEnough(r_in)
            /\ \A y \in ThickEnough(r_in) : SiteDist2(cen) <= SiteDist2(y))

C11_Witness ==
    /\ count = 2
    /\ attraction # {}
    /\ \E y \in Options : dt[y] < Sq(Sentinel)
    /\ \E x, y \in ThickEnough(r_in) : SiteDist2(x) # SiteDist2(y)

\* C12 as stated: the pool line 48 builds is the set of non-site voxels whose
\* thickness is >= (r + clearance) - protrusion.
C12_InitialPoolEffectiveR ==
    (pc = "loop" /\ it = 0) => Options = ThickEnough(r_in + clearance)

\* C12 as amended: the pool line 48 builds is the set of non-site voxels whose
\* thickness is >= r - protrusion, r being the caller's radius whatever the
\* clearance.
C12_InitialPool ==
    (pc = "loop" /\ it = 0) => Options = ThickEnough(r_in)

C12_Witness ==
    /\ pc = "loop"
    /\ it = 0
    /\ clearance # 0
    /\ attraction # {}
    /\ Options # {}
    /\ ThickEnough(r_in) # ThickEnough(r_in + clearance)

====
